---- MODULE Spec2Model ----
(***************************************************************************)
(* Model of src/app.py: the record parser (parse_data), the value          *)
(* extractor (extract_target_values), the spreadsheet writer               *)
(* (update_excel_file / write_to_cell) and the lot-form / update-button    *)
(* handlers of main.                                                       *)
(*                                                                         *)
(* Strings are sequences of one-character strings, so that strip, split    *)
(* and the regular expressions are computed as the code computes them.     *)
(* A Python float is represented exactly, in thousandths (1.235 is 1235);  *)
(* the result of round(x, 2) is represented in hundredths (1.24 is 124).   *)
(***************************************************************************)
EXTENDS Integers, Sequences, FiniteSets, TLC

VARIABLES
    pc,                 \* position of the run
    file_content,       \* the uploaded text
    data,               \* parse_data's result
    distance_values,    \* extract_target_values' first result
    int_circle_values,  \* extract_target_values' second result
    raised,             \* TRUE when the call under way raised an exception
    excel_file,         \* the workbook uploaded as the template
    call,               \* the arguments update_excel_file is called with
    result,             \* what update_excel_file returned and showed
    version,            \* which of the file's two definitions of main runs
    ui,                 \* the widgets of steps 2 and 3: sheet and cell references
    session_state,      \* st.session_state: lot_number, inspection_date, lot_prefix
    form,               \* the text inputs of the lot form as last submitted
    download,           \* the download button of the current rerun
    query,              \* a call of extract_lot_prefix or validate_date_format
    answer              \* what that call returned

pvars == <<pc, file_content, data, distance_values, int_circle_values, raised>>
wvars == <<excel_file, call, result>>
pvars_but_pc == <<file_content, data, distance_values, int_circle_values, raised>>
mvars == <<version, ui, session_state>>
svars == <<form, download>>
fvars == <<query, answer>>
vars == <<pvars, wvars, mvars, svars, fvars>>

----------------------------------------------------------------------------
(* Strings *)

Digit == {"0", "1", "2", "3", "4", "5", "6", "7", "8", "9"}
Whitespace == {" ", "\t"}

DigitVal(c) ==
    CASE c = "0" -> 0 [] c = "1" -> 1 [] c = "2" -> 2 [] c = "3" -> 3
      [] c = "4" -> 4 [] c = "5" -> 5 [] c = "6" -> 6 [] c = "7" -> 7
      [] c = "8" -> 8 [] c = "9" -> 9

\* s[from..] ; the empty string when from is past the end
Drop(s, n) == SubSeq(s, n + 1, Len(s))
Take(s, n) == SubSeq(s, 1, n)

RECURSIVE LStrip(_)
LStrip(s) ==
    IF s # <<>> /\ Head(s) \in Whitespace THEN LStrip(Tail(s)) ELSE s

RECURSIVE RStrip(_)
RStrip(s) ==
    IF s # <<>> /\ s[Len(s)] \in Whitespace THEN RStrip(Take(s, Len(s) - 1)) ELSE s

\* str.strip()
Strip(s) == RStrip(LStrip(s))

\* str.split(sep): always at least one part
RECURSIVE SplitAcc(_, _, _)
SplitAcc(s, sep, cur) ==
    IF s = <<>> THEN <<cur>>
    ELSE IF Head(s) = sep THEN <<cur>> \o SplitAcc(Tail(s), sep, <<>>)
    ELSE SplitAcc(Tail(s), sep, Append(cur, Head(s)))

Split(s, sep) == SplitAcc(s, sep, <<>>)

\* str.splitlines(): a final line break does not open another line
RECURSIVE SplitLinesAcc(_, _)
SplitLinesAcc(s, cur) ==
    IF s = <<>> THEN (IF cur = <<>> THEN <<>> ELSE <<cur>>)
    ELSE IF Head(s) = "\n" THEN <<cur>> \o SplitLinesAcc(Tail(s), <<>>)
    ELSE SplitLinesAcc(Tail(s), Append(cur, Head(s)))

SplitLines(s) == SplitLinesAcc(s, <<>>)

\* number of leading characters of s that are in the set cs
RECURSIVE Span(_, _)
Span(s, cs) ==
    IF s # <<>> /\ Head(s) \in cs THEN 1 + Span(Tail(s), cs) ELSE 0

AllIn(s, cs) == \A i \in 1..Len(s) : s[i] \in cs

----------------------------------------------------------------------------
(* Numbers *)

Abs(x) == IF x < 0 THEN -x ELSE x

RECURSIVE DigitsVal(_)
DigitsVal(s) ==
    IF s = <<>> THEN 0 ELSE 10 * DigitsVal(Take(s, Len(s) - 1)) + DigitVal(s[Len(s)])

\* re.match(r'^-?\d+\.?\d*$', val), val already stripped
NumericPattern(val) ==
    LET u == IF val # <<>> /\ Head(val) = "-" THEN Tail(val) ELSE val
        n == Span(u, Digit)
        r == Drop(u, n)
    IN  /\ n >= 1
        /\ \/ r = <<>>
           \/ Head(r) = "." /\ AllIn(Tail(r), Digit)

\* float(val) for a val matching NumericPattern with at most 3 decimals,
\* in thousandths
Float(val) ==
    LET neg == val # <<>> /\ Head(val) = "-"
        u == IF neg THEN Tail(val) ELSE val
        n == Span(u, Digit)
        r == Drop(u, n)
        frac == IF r = <<>> THEN <<>> ELSE Tail(r)
        scale == CASE Len(frac) = 0 -> 1000 [] Len(frac) = 1 -> 100
                   [] Len(frac) = 2 -> 10 [] Len(frac) = 3 -> 1
        mag == DigitsVal(Take(u, n)) * 1000 + DigitsVal(frac) * scale
    IN  IF neg THEN -mag ELSE mag

RECURSIVE Pow2Mod1000(_)
Pow2Mod1000(e) == IF e = 0 THEN 1 ELSE (2 * Pow2Mod1000(e - 1)) % 1000

\* the n >= 0 with 2^n * 1000 <= k < 2^(n+1) * 1000, for k >= 1000
RECURSIVE Log2Up(_)
Log2Up(k) == IF k < 2000 THEN 0 ELSE 1 + Log2Up(k \div 2)

\* the least n >= 0 with k * 2^n >= 1000, for 0 < k
RECURSIVE Log2Down(_)
Log2Down(k) == IF k >= 1000 THEN 0 ELSE 1 + Log2Down(2 * k)

\* TRUE when the double nearest to k/1000 lies above k/1000, for a k > 0
\* that is no multiple of 125 (those are doubles themselves): with
\* 2^52 <= k * 2^e / 1000 < 2^53 the double is round(k * 2^e / 1000) / 2^e
DoubleAbove(k) ==
    LET e == IF k >= 1000 THEN 52 - Log2Up(k) ELSE 52 + Log2Down(k)
        r == ((k % 1000) * Pow2Mod1000(e)) % 1000
    IN  r > 500

\* round(x, 2) of the float x = v/1000, in hundredths: the double's exact
\* value is rounded to the nearest hundredth, an exact tie to the even one
Round2(v) ==
    LET k == Abs(v)
        q == k \div 10
        d == k % 10
        up == IF d # 5 THEN d > 5
              ELSE IF k % 125 = 0 THEN q % 2 = 1
              ELSE DoubleAbove(k)
        h == IF up THEN q + 1 ELSE q
    IN  IF v < 0 THEN -h ELSE h

----------------------------------------------------------------------------
(* Lot number and inspection date *)

Letter ==
    {"A", "B", "C", "D", "E", "F", "G", "H", "I", "J", "K", "L", "M",
     "N", "O", "P", "Q", "R", "S", "T", "U", "V", "W", "X", "Y", "Z",
     "a", "b", "c", "d", "e", "f", "g", "h", "i", "j", "k", "l", "m",
     "n", "o", "p", "q", "r", "s", "t", "u", "v", "w", "x", "y", "z"}

\* None where the code has an optional string
None == <<"None">>
Truthy(x) == x # None /\ x # <<>>

\* extract_lot_prefix with the pattern ^([A-Za-z]+\d): one digit only
extract_lot_prefix_one_digit(lot_number) ==
    IF ~Truthy(lot_number) THEN None
    ELSE LET n == Span(lot_number, Letter)
             m == Span(Drop(lot_number, n), Digit)
         IN  IF n >= 1 /\ m >= 1 THEN Take(lot_number, n + 1) ELSE None

\* re.match(r'^([A-Za-z]+\d+)', lot_number): group 1, or None
extract_lot_prefix(lot_number) ==
    IF ~Truthy(lot_number) THEN None
    ELSE LET n == Span(lot_number, Letter)
             m == Span(Drop(lot_number, n), Digit)
         IN  IF n >= 1 /\ m >= 1 THEN Take(lot_number, n + m) ELSE None

\* bool(re.match(r'^\d{4}/\d{2}/\d{2}$', date_string)); "$" matches at the
\* end of the string and also just before a line break that ends the string
validate_date_format(date_string) ==
    IF ~Truthy(date_string) THEN FALSE
    ELSE LET d == IF Len(date_string) = 11 /\ date_string[11] = "\n"
                  THEN Take(date_string, 10) ELSE date_string
         IN  /\ Len(d) = 10
             /\ \A i \in {1, 2, 3, 4, 6, 7, 9, 10} : d[i] \in Digit
             /\ d[5] = "/" /\ d[8] = "/"

----------------------------------------------------------------------------
(* Record parser *)

T_PLANE == <<"P", "L", "A", "N", "E">>
T_CIRCLE == <<"C", "I", "R", "C", "L", "E">>
T_PT_COMP == <<"P", "T", "-", "C", "O", "M", "P">>
T_DISTANCE == <<"D", "I", "S", "T", "A", "N", "C", "E">>
T_CONE == <<"C", "O", "N", "E">>
T_INT_CIRCLE == <<"I", "N", "T", "-", "C", "I", "R", "C", "L", "E">>
T_SYM_POINT == <<"S", "Y", "M", "-", "P", "O", "I", "N", "T">>

KnownTypes == {T_PLANE, T_CIRCLE, T_PT_COMP, T_DISTANCE, T_CONE, T_INT_CIRCLE, T_SYM_POINT}

\* Cols naming the generic columns from 0: f'Val{i}'
ColsFromZero(obj_type, n) ==
    CASE obj_type = T_PLANE      -> <<"Method", "X", "Y", "Z", "A", "B", "C", "", "D", "Dev">>
      [] obj_type = T_CIRCLE     -> <<"Method", "X", "Y", "Z", "I", "J", "K", "", "Radius", "Dev">>
      [] obj_type = T_PT_COMP    -> <<"Method", "X", "Y", "Z">>
      [] obj_type = T_DISTANCE   -> <<"", "X", "Y", "Z", "", "", "", "", "Distance">>
      [] obj_type = T_CONE       -> <<"Method", "X", "Y", "Z", "I", "J", "K", "", "Half-Angle", "Dev">>
      [] obj_type = T_INT_CIRCLE -> <<"", "X", "Y", "Z", "I", "J", "K", "", "Radius">>
      [] obj_type = T_SYM_POINT  -> <<"", "X", "Y", "Z">>
      [] OTHER                   -> [i \in 1..n |-> "Val" \o ToString(i - 1)]

\* the column names of an object type; n is len(remaining_values)
Cols(obj_type, n) ==
    CASE obj_type = T_PLANE      -> <<"Method", "X", "Y", "Z", "A", "B", "C", "", "D", "Dev">>
      [] obj_type = T_CIRCLE     -> <<"Method", "X", "Y", "Z", "I", "J", "K", "", "Radius", "Dev">>
      [] obj_type = T_PT_COMP    -> <<"Method", "X", "Y", "Z">>
      [] obj_type = T_DISTANCE   -> <<"", "X", "Y", "Z", "", "", "", "", "Distance">>
      [] obj_type = T_CONE       -> <<"Method", "X", "Y", "Z", "I", "J", "K", "", "Half-Angle", "Dev">>
      [] obj_type = T_INT_CIRCLE -> <<"", "X", "Y", "Z", "I", "J", "K", "", "Radius">>
      [] obj_type = T_SYM_POINT  -> <<"", "X", "Y", "Z">>
      [] OTHER                   -> [i \in 1..n |-> "Val" \o ToString(i)]

\* a field value: a float (num, v in thousandths) or the original string (s)
FloatValue(x) == [num |-> TRUE, v |-> x, s |-> <<>>]
StrValue(t) == [num |-> FALSE, v |-> 0, s |-> t]

\* row[cols[i]] = float(val) or val
Coerce(val) == IF NumericPattern(val) THEN FloatValue(Float(val)) ELSE StrValue(val)

SetField(fields, name, value) ==
    [k \in DOMAIN fields \cup {name} |-> IF k = name THEN value ELSE fields[k]]

NoFields == [k \in {} |-> StrValue(<<>>)]

\* AddValues without the test of cols[i]: a blank schema slot becomes a key
RECURSIVE AddValuesBlankKey(_, _, _, _)
AddValuesBlankKey(fields, cols, remaining_values, i) ==
    IF i > Len(remaining_values) THEN fields
    ELSE LET val == remaining_values[i]
             keep == i <= Len(cols) /\ val # <<>>
         IN  AddValuesBlankKey(IF keep THEN SetField(fields, cols[i], Coerce(val)) ELSE fields,
                               cols, remaining_values, i + 1)

\* the loop "for i, val in enumerate(remaining_values)", from position i on
RECURSIVE AddValues(_, _, _, _)
AddValues(fields, cols, remaining_values, i) ==
    IF i > Len(remaining_values) THEN fields
    ELSE LET val == remaining_values[i]
             keep == i <= Len(cols) /\ cols[i] # "" /\ val # <<>>
         IN  AddValues(IF keep THEN SetField(fields, cols[i], Coerce(val)) ELSE fields,
                       cols, remaining_values, i + 1)

\* ParseLine with the test "len(parts) < 2" off by one
ParseLineShort(line) ==
    LET parts == Split(Strip(line), ";")
        remaining_values == [i \in 1..(Len(parts) - 2) |-> Strip(parts[i + 2])]
        cols == Cols(parts[2], Len(remaining_values))
    IN  IF Strip(line) = <<>> THEN <<>>
        ELSE IF Len(parts) < 3 THEN <<>>
        ELSE <<[ID |-> parts[1], Type |-> parts[2],
                fields |-> AddValues(NoFields, cols, remaining_values, 1)]>>

\* the body of "for line in lines": the rows one line contributes (0 or 1)
ParseLine(line) ==
    LET parts == Split(Strip(line), ";")
        remaining_values == [i \in 1..(Len(parts) - 2) |-> Strip(parts[i + 2])]
        cols == Cols(parts[2], Len(remaining_values))
    IN  IF Strip(line) = <<>> THEN <<>>
        ELSE IF Len(parts) < 2 THEN <<>>
        ELSE <<[ID |-> parts[1], Type |-> parts[2],
                fields |-> AddValues(NoFields, cols, remaining_values, 1)]>>

RECURSIVE ParseLines(_)
ParseLines(lines) ==
    IF lines = <<>> THEN <<>> ELSE ParseLine(Head(lines)) \o ParseLines(Tail(lines))

parse_data(content) == ParseLines(SplitLines(content))

----------------------------------------------------------------------------
(* Value extractor *)

\* the first loop of extract_target_values over data: abs() and round() of a
\* field stored as a string raise TypeError, which nothing catches
RECURSIVE Collect(_, _, _)
Collect(items, distance_items, circle_values) ==
    IF items = <<>>
    THEN [raised |-> FALSE, distance_items |-> distance_items, int_circle_values |-> circle_values]
    ELSE LET item == Head(items)
         IN  IF item.Type = T_DISTANCE
             THEN IF "X" \in DOMAIN item.fields
                  THEN IF item.fields["X"].num
                       THEN Collect(Tail(items),
                                    Append(distance_items,
                                           [id |-> item.ID, value |-> Round2(Abs(item.fields["X"].v))]),
                                    circle_values)
                       ELSE [raised |-> TRUE, distance_items |-> <<>>, int_circle_values |-> <<>>]
                  ELSE Collect(Tail(items), distance_items, circle_values)
             ELSE IF item.Type = T_INT_CIRCLE
             THEN IF "Radius" \in DOMAIN item.fields
                  THEN IF item.fields["Radius"].num
                       THEN Collect(Tail(items), distance_items,
                                    Append(circle_values, Round2(item.fields["Radius"].v)))
                       ELSE [raised |-> TRUE, distance_items |-> <<>>, int_circle_values |-> <<>>]
                  ELSE Collect(Tail(items), distance_items, circle_values)
             ELSE Collect(Tail(items), distance_items, circle_values)

distance_order == << <<"3">>, <<"2">>, <<"1">>, <<"4">> >>

\* "for item in distance_items: if str(item['id']) == target_id: ... break"
RECURSIVE FirstMatch(_, _)
FirstMatch(distance_items, target_id) ==
    IF distance_items = <<>> THEN <<>>
    ELSE IF Head(distance_items).id = target_id THEN <<Head(distance_items).value>>
    ELSE FirstMatch(Tail(distance_items), target_id)

\* "for target_id in distance_order", from position i on
RECURSIVE OrderDistances(_, _)
OrderDistances(distance_items, i) ==
    IF i > Len(distance_order) THEN <<>>
    ELSE FirstMatch(distance_items, distance_order[i]) \o OrderDistances(distance_items, i + 1)

extract_target_values(items) ==
    LET c == Collect(items, <<>>, <<>>)
    IN  IF c.raised
        THEN [raised |-> TRUE, distance_values |-> <<>>, int_circle_values |-> <<>>]
        ELSE [raised |-> FALSE,
              distance_values |-> OrderDistances(c.distance_items, 1),
              int_circle_values |-> c.int_circle_values]

----------------------------------------------------------------------------
(* Input lines of the measurement file *)

\* '3;DISTANCE;;0.5'
L_d3 == <<"3", ";", "D", "I", "S", "T", "A", "N", "C", "E", ";", ";", "0", ".", "5">>
\* ' 3;DISTANCE;; -9.999 ;7'
L_d3b == <<" ", "3", ";", "D", "I", "S", "T", "A", "N", "C", "E", ";", ";", " ", "-", "9", ".", "9", "9", "9", " ", ";", "7">>
\* '1;DISTANCE;;-1.235'
L_d1 == <<"1", ";", "D", "I", "S", "T", "A", "N", "C", "E", ";", ";", "-", "1", ".", "2", "3", "5">>
\* '2;DISTANCE;;2.004'
L_d2 == <<"2", ";", "D", "I", "S", "T", "A", "N", "C", "E", ";", ";", "2", ".", "0", "0", "4">>
\* '4;DISTANCE;;9.999'
L_d4 == <<"4", ";", "D", "I", "S", "T", "A", "N", "C", "E", ";", ";", "9", ".", "9", "9", "9">>
\* '7;DISTANCE;;6.125'
L_d7 == <<"7", ";", "D", "I", "S", "T", "A", "N", "C", "E", ";", ";", "6", ".", "1", "2", "5">>
\* '2;DISTANCE;;abc'
L_dstr == <<"2", ";", "D", "I", "S", "T", "A", "N", "C", "E", ";", ";", "a", "b", "c">>
\* '1;DISTANCE'
L_dnox == <<"1", ";", "D", "I", "S", "T", "A", "N", "C", "E">>
\* '5;INT-CIRCLE;;;;;;;;;2.675'
L_c5 == <<"5", ";", "I", "N", "T", "-", "C", "I", "R", "C", "L", "E", ";", ";", ";", ";", ";", ";", ";", ";", ";", "2", ".", "6", "7", "5">>
\* '5;INT-CIRCLE;;1.;;;;;;;-0.125'
L_c5b == <<"5", ";", "I", "N", "T", "-", "C", "I", "R", "C", "L", "E", ";", ";", "1", ".", ";", ";", ";", ";", ";", ";", ";", "-", "0", ".", "1", "2", "5">>
\* '6;INT-CIRCLE;;;;;;;;;1e3'
L_cstr == <<"6", ";", "I", "N", "T", "-", "C", "I", "R", "C", "L", "E", ";", ";", ";", ";", ";", ";", ";", ";", ";", "1", "e", "3">>
\* '8;INT-CIRCLE;;1.5'
L_cnor == <<"8", ";", "I", "N", "T", "-", "C", "I", "R", "C", "L", "E", ";", ";", "1", ".", "5">>
\* ''
L_empty == <<>>
\* ' \t'
L_blank == <<" ", "\t">>
\* 'junk'
L_junk == <<"j", "u", "n", "k">>
\* ';'
L_semi == <<";">>
\* '3 ;FOO;a;;12'
L_foo == <<"3", " ", ";", "F", "O", "O", ";", "a", ";", ";", "1", "2">>
\* '9;CIRCLE;m;1;2;3;0;0;1;x;4.5;0.01;extra'
L_circ == <<"9", ";", "C", "I", "R", "C", "L", "E", ";", "m", ";", "1", ";", "2", ";", "3", ";", "0", ";", "0", ";", "1", ";", "x", ";", "4", ".", "5", ";", "0", ".", "0", "1", ";", "e", "x", "t", "r", "a">>

LineSet == {L_d3, L_d3b, L_d1, L_d2, L_d4, L_d7, L_dstr, L_dnox, L_c5, L_c5b, L_cstr, L_cnor, L_empty, L_blank, L_junk, L_semi, L_foo, L_circ}

\* the example of the documentation: ids 1..4, one DISTANCE line each
ExampleLines == <<L_d1, L_d2, L_d3, L_d4>>

MaxLines == 3

RECURSIVE JoinLines(_)
JoinLines(ls) ==
    IF ls = <<>> THEN <<>> ELSE Head(ls) \o <<"\n">> \o JoinLines(Tail(ls))

LineSeqs == UNION {[1..n -> LineSet] : n \in 0..MaxLines}

Texts == {JoinLines(ls) : ls \in LineSeqs \cup {ExampleLines}}

----------------------------------------------------------------------------
(* Workbooks *)

MaxCol == 3
MaxRow == 3

ColLetters == <<"A", "B", "C", "D", "E", "F", "G", "H">>
RowDigits == <<"1", "2", "3", "4", "5", "6", "7", "8", "9">>

Coords == [c : 1..MaxCol, r : 1..MaxRow]

\* a cell value: None, a float (n, in hundredths) or a string (s)
NoneV == [t |-> "none", n |-> 0, s |-> <<>>]
NumV(x) == [t |-> "num", n |-> x, s |-> <<>>]
StrV(x) == [t |-> "str", n |-> 0, s |-> x]

\* None where the code has an optional sheet name
NoSheetName == "<None>"

\* wb.sheetnames, as a set
SheetNames(wb) == {wb.sheetnames[i] : i \in 1..Len(wb.sheetnames)}

\* merged_range.bounds is (min_col, min_row, max_col, max_row)
InRange(co, mr) ==
    mr.min_col <= co.c /\ co.c <= mr.max_col /\ mr.min_row <= co.r /\ co.r <= mr.max_row

Anchor(mr) == [c |-> mr.min_col, r |-> mr.min_row]

\* isinstance(cell, MergedCell): a cell of a merged region other than its
\* top-left cell
IsMergedCell(ranges, co) == \E mr \in ranges : InRange(co, mr) /\ co # Anchor(mr)

\* what load_workbook exposes of a saved workbook: the cells of a merged
\* region other than the top-left one are MergedCells, whose value is None
Reopen(wb) ==
    [wb EXCEPT !.cells =
        [name \in DOMAIN wb.cells |->
            [co \in Coords |->
                IF IsMergedCell(wb.merged[name], co) THEN NoneV ELSE wb.cells[name][co]]]]

----------------------------------------------------------------------------
(* Spreadsheet writer *)

\* worksheet[cell_ref]: a column letter followed by a row number names one
\* cell; anything else raises or yields a tuple of cells that has no value
\* to assign, and either way the write raises
ResolveRef(cell_ref) ==
    IF /\ Len(cell_ref) = 2
       /\ \E c \in 1..MaxCol : ColLetters[c] = cell_ref[1]
       /\ \E r \in 1..MaxRow : RowDigits[r] = cell_ref[2]
    THEN [ok |-> TRUE,
          co |-> [c |-> CHOOSE c \in 1..MaxCol : ColLetters[c] = cell_ref[1],
                  r |-> CHOOSE r \in 1..MaxRow : RowDigits[r] = cell_ref[2]]]
    ELSE [ok |-> FALSE, co |-> [c |-> 0, r |-> 0]]

\* SetCell storing the value in the same cell of every sheet
SetCellEverySheet(wb, title, co, value) ==
    [wb EXCEPT !.cells = [name \in DOMAIN wb.cells |-> [wb.cells[name] EXCEPT ![co] = value]]]

SetCell(wb, title, co, value) == [wb EXCEPT !.cells[title][co] = value]

\* write_to_cell without the redirection to the top-left cell
write_to_cell_unmerged(wb, title, cell_ref, value) ==
    LET res == ResolveRef(cell_ref)
        co == res.co
    IN  IF ~res.ok
        THEN [wb |-> wb, ok |-> FALSE,
              msg |-> [level |-> "error", cell_ref |-> cell_ref, value |-> value, at |-> co]]
        ELSE [wb |-> [wb EXCEPT !.cells[title][co] = value], ok |-> TRUE,
              msg |-> [level |-> "success", cell_ref |-> cell_ref, value |-> value, at |-> co]]

\* write_to_cell(worksheet, cell_ref, value): the workbook afterwards, the
\* returned flag and the message shown
write_to_cell(wb, title, cell_ref, value) ==
    LET res == ResolveRef(cell_ref)
        co == res.co
        ranges == wb.merged[title]
    IN  IF ~res.ok
        THEN [wb |-> wb, ok |-> FALSE,
              msg |-> [level |-> "error", cell_ref |-> cell_ref, value |-> value, at |-> co]]
        ELSE IF IsMergedCell(ranges, co)
        THEN LET mr == CHOOSE m \in ranges : InRange(co, m)
                 top_left == Anchor(mr)
             IN  [wb |-> SetCell(wb, title, top_left, value), ok |-> TRUE,
                  msg |-> [level |-> "warning", cell_ref |-> cell_ref, value |-> value, at |-> top_left]]
        ELSE [wb |-> SetCell(wb, title, co, value), ok |-> TRUE,
              msg |-> [level |-> "success", cell_ref |-> cell_ref, value |-> value, at |-> co]]

Min(a, b) == IF a < b THEN a ELSE b

\* zip(values, cells)
Zip(values, cells) ==
    [i \in 1..Min(Len(values), Len(cells)) |-> [value |-> values[i], cell |-> cells[i]]]

\* one write_to_cell call of update_excel_file on the running state
WriteStep(st, cell_ref, value) ==
    LET w == write_to_cell(st.wb, st.title, cell_ref, value)
    IN  [wb |-> w.wb, title |-> st.title,
         successful_writes |-> st.successful_writes + (IF w.ok THEN 1 ELSE 0),
         log |-> Append(st.log, w.msg)]

\* WritePairs without the test "if cell.strip()"
RECURSIVE WritePairsNoSkip(_, _, _)
WritePairsNoSkip(st, pairs, i) ==
    IF i > Len(pairs) THEN st
    ELSE WritePairsNoSkip(WriteStep(st, Strip(pairs[i].cell), NumV(pairs[i].value)), pairs, i + 1)

\* WritePairs leaving the loop at the first write that fails
RECURSIVE WritePairsAbort(_, _, _)
WritePairsAbort(st, pairs, i) ==
    IF i > Len(pairs) THEN st
    ELSE IF Strip(pairs[i].cell) # <<>>
    THEN LET next == WriteStep(st, Strip(pairs[i].cell), NumV(pairs[i].value))
         IN  IF next.successful_writes = st.successful_writes THEN next
             ELSE WritePairsAbort(next, pairs, i + 1)
    ELSE WritePairsAbort(st, pairs, i + 1)

\* "for i, (value, cell) in enumerate(zip(values, cells))", from pair i on
RECURSIVE WritePairs(_, _, _)
WritePairs(st, pairs, i) ==
    IF i > Len(pairs) THEN st
    ELSE IF Strip(pairs[i].cell) # <<>>
    THEN WritePairs(WriteStep(st, Strip(pairs[i].cell), NumV(pairs[i].value)), pairs, i + 1)
    ELSE WritePairs(st, pairs, i + 1)

S_B1 == <<"B", "1">>
S_B2 == <<"B", "2">>
S_B3 == <<"B", "3">>

\* TargetSheet without the fallback to the sheet named "sheet"
TargetSheetOrActive(wb, sheet_name) ==
    IF sheet_name # NoSheetName /\ sheet_name # ""
       /\ \E i \in 1..Len(wb.sheetnames) : wb.sheetnames[i] = sheet_name
    THEN sheet_name
    ELSE wb.sheetnames[wb.active]

\* "if sheet_name and sheet_name in wb.sheetnames ... elif "sheet" in
\* wb.sheetnames ... else wb.active": the title of ws
TargetSheet(wb, sheet_name) ==
    IF sheet_name # NoSheetName /\ sheet_name # ""
       /\ \E i \in 1..Len(wb.sheetnames) : wb.sheetnames[i] = sheet_name
    THEN sheet_name
    ELSE IF \E i \in 1..Len(wb.sheetnames) : wb.sheetnames[i] = "sheet"
    THEN "sheet"
    ELSE wb.sheetnames[wb.active]

\* update_excel_file with the cells of lot number and inspection date swapped
update_excel_file_swapped(file, dvalues, cvalues, dcells, ccells, sheet_name, lot_number, inspection_date, lot_prefix) ==
    IF ~file.valid
    THEN [ok |-> FALSE, output |-> file, title |-> NoSheetName, successful_writes |-> 0, log |-> <<>>]
    ELSE LET s0 == [wb |-> file, title |-> TargetSheet(file, sheet_name),
                    successful_writes |-> 0, log |-> <<>>]
             s1 == IF Truthy(lot_number) THEN WriteStep(s0, S_B2, StrV(lot_number)) ELSE s0
             s2 == IF Truthy(inspection_date) THEN WriteStep(s1, S_B1, StrV(inspection_date)) ELSE s1
             s3 == IF Truthy(lot_prefix) THEN WriteStep(s2, S_B3, StrV(lot_prefix)) ELSE s2
             s4 == WritePairs(s3, Zip(dvalues, dcells), 1)
             s5 == WritePairs(s4, Zip(cvalues, ccells), 1)
         IN  [ok |-> TRUE, output |-> s5.wb, title |-> s5.title,
              successful_writes |-> s5.successful_writes, log |-> s5.log]

\* update_excel_file with the int-circle pairs written before the distance pairs
update_excel_file_circles_first(file, dvalues, cvalues, dcells, ccells, sheet_name, lot_number, inspection_date, lot_prefix) ==
    IF ~file.valid
    THEN [ok |-> FALSE, output |-> file, title |-> NoSheetName, successful_writes |-> 0, log |-> <<>>]
    ELSE LET s0 == [wb |-> file, title |-> TargetSheet(file, sheet_name),
                    successful_writes |-> 0, log |-> <<>>]
             s1 == IF Truthy(lot_number) THEN WriteStep(s0, S_B1, StrV(lot_number)) ELSE s0
             s2 == IF Truthy(inspection_date) THEN WriteStep(s1, S_B2, StrV(inspection_date)) ELSE s1
             s3 == IF Truthy(lot_prefix) THEN WriteStep(s2, S_B3, StrV(lot_prefix)) ELSE s2
             s4 == WritePairs(s3, Zip(cvalues, ccells), 1)
             s5 == WritePairs(s4, Zip(dvalues, dcells), 1)
         IN  [ok |-> TRUE, output |-> s5.wb, title |-> s5.title,
              successful_writes |-> s5.successful_writes, log |-> s5.log]

\* update_excel_file: output is the serialized workbook, or None (ok FALSE)
\* when the source is no workbook
update_excel_file(file, dvalues, cvalues, dcells, ccells, sheet_name, lot_number, inspection_date, lot_prefix) ==
    IF ~file.valid
    THEN [ok |-> FALSE, output |-> file, title |-> NoSheetName, successful_writes |-> 0, log |-> <<>>]
    ELSE LET s0 == [wb |-> file, title |-> TargetSheet(file, sheet_name),
                    successful_writes |-> 0, log |-> <<>>]
             s1 == IF Truthy(lot_number) THEN WriteStep(s0, S_B1, StrV(lot_number)) ELSE s0
             s2 == IF Truthy(inspection_date) THEN WriteStep(s1, S_B2, StrV(inspection_date)) ELSE s1
             s3 == IF Truthy(lot_prefix) THEN WriteStep(s2, S_B3, StrV(lot_prefix)) ELSE s2
             s4 == WritePairs(s3, Zip(dvalues, dcells), 1)
             s5 == WritePairs(s4, Zip(cvalues, ccells), 1)
         IN  [ok |-> TRUE, output |-> s5.wb, title |-> s5.title,
              successful_writes |-> s5.successful_writes, log |-> s5.log]

----------------------------------------------------------------------------
(* Template workbooks and call arguments *)

SheetConfigs ==
    { [sheetnames |-> <<"Sheet1">>, active |-> 1],
      [sheetnames |-> <<"Sheet1", "sheet">>, active |-> 1],
      [sheetnames |-> <<"data", "Sheet1">>, active |-> 2] }

Range(c1, r1, c2, r2) == [min_col |-> c1, min_row |-> r1, max_col |-> c2, max_row |-> r2]

\* no merged region; A2:B3; A1:B1 and C2:C3
MergedLayouts ==
    { {}, {Range(1, 2, 2, 3)}, {Range(1, 1, 2, 1), Range(3, 2, 3, 3)} }

\* every cell of the template holds a value of its own
TemplateValue(i, co) == NumV(0 - (100 * i + 10 * co.c + co.r))

MakeWorkbook(cfg, layout) ==
    Reopen([valid |-> TRUE, sheetnames |-> cfg.sheetnames, active |-> cfg.active,
            cells |-> [name \in {cfg.sheetnames[i] : i \in 1..Len(cfg.sheetnames)} |->
                         [co \in Coords |->
                            TemplateValue(CHOOSE i \in 1..Len(cfg.sheetnames) : cfg.sheetnames[i] = name, co)]],
            merged |-> [name \in {cfg.sheetnames[i] : i \in 1..Len(cfg.sheetnames)} |-> layout]])

\* a source load_workbook cannot open
BadFile == [valid |-> FALSE, sheetnames |-> <<>>, active |-> 0, cells |-> <<>>, merged |-> <<>>]

Templates == {MakeWorkbook(cfg, layout) : cfg \in SheetConfigs, layout \in MergedLayouts}

NoResult == [ok |-> FALSE, output |-> BadFile, title |-> NoSheetName, successful_writes |-> 0, log |-> <<>>]

R_A1 == <<"A", "1">>
R_B3 == <<" ", "B", "3", " ">>
R_B1 == <<"B", "1">>
R_C3 == <<"C", "3">>
R_blank == <<" ", "\t">>
R_empty == <<>>
R_bad == <<"!", "?">>

DistRefs == {R_A1, R_B3, R_B1, R_blank, R_bad}
CircRefs == {R_A1, R_C3, R_empty}

MaxDistCells == 2
MaxCircCells == 1
MaxVals == 2

DistValue(i) == 100 * i + 24
CircValue(i) == 0 - (100 * i + 67)

SeqsUpTo(S, n) == UNION {[1..k -> S] : k \in 0..n}

V_LOT == <<"L", "O", "T", "7", "(", "7", "-", "9", ")">>
V_DATE == <<"2", "0", "2", "5", "/", "1", "0", "/", "0", "7">>
V_PREFIX == <<"L", "O", "T", "7">>

LotArgs ==
    { [lot_number |-> None, inspection_date |-> None, lot_prefix |-> None],
      [lot_number |-> V_LOT, inspection_date |-> V_DATE, lot_prefix |-> V_PREFIX],
      [lot_number |-> <<>>, inspection_date |-> V_DATE, lot_prefix |-> None],
      [lot_number |-> V_LOT, inspection_date |-> <<>>, lot_prefix |-> V_PREFIX] }

SheetNameArgs == {NoSheetName, "", "data", "gone"}

Calls ==
    [distance_values : {[i \in 1..n |-> DistValue(i)] : n \in 0..MaxVals},
     int_circle_values : {[i \in 1..n |-> CircValue(i)] : n \in 0..MaxVals},
     distance_cells : SeqsUpTo(DistRefs, MaxDistCells),
     int_circle_cells : SeqsUpTo(CircRefs, MaxCircCells),
     sheet_name : SheetNameArgs,
     lot : LotArgs]

NoCall ==
    [distance_values |-> <<>>, int_circle_values |-> <<>>, distance_cells |-> <<>>,
     int_circle_cells |-> <<>>, sheet_name |-> NoSheetName, lot |-> CHOOSE l \in LotArgs : l.lot_number = None]

\* st.session_state once the three keys exist (lines 355-358, 680-683)
NoSession == [lot_number |-> None, inspection_date |-> None, lot_prefix |-> None]

\* the lot form before any submission
NoForm == [lot_number |-> <<>>, inspection_date |-> <<>>]

\* no download button is shown
NoDownload == [offered |-> FALSE, file_name |-> <<>>]

NoQuery == [fn |-> "none", arg |-> <<>>]
NoAnswer == [s |-> <<>>, b |-> FALSE]

NoUi == [location_option |-> "default", distance_cells |-> <<>>, int_circle_cells |-> <<>>,
         selected_sheet |-> NoSheetName]

----------------------------------------------------------------------------
(* The run from the uploaded text to the extracted values (main, first part) *)

InitPipeline ==
    /\ pc = "start"
    /\ file_content \in Texts
    /\ data = <<>>
    /\ distance_values = <<>>
    /\ int_circle_values = <<>>
    /\ raised = FALSE
    /\ excel_file = BadFile
    /\ call = NoCall
    /\ result = NoResult
    /\ version = "main494"
    /\ ui = NoUi
    /\ session_state = NoSession
    /\ form = NoForm
    /\ download = NoDownload
    /\ query = NoQuery
    /\ answer = NoAnswer

\* data = parse_data(file_content)
ParseData ==
    /\ pc = "start"
    /\ data' = parse_data(file_content)
    /\ pc' = "parsed"
    /\ UNCHANGED <<file_content, distance_values, int_circle_values, raised, wvars, mvars, svars, fvars>>

\* distance_values, int_circle_values = extract_target_values(data), under "if data:"
ExtractTargetValues ==
    /\ pc = "parsed"
    /\ data # <<>>
    /\ LET r == extract_target_values(data)
       IN  /\ raised' = r.raised
           /\ distance_values' = r.distance_values
           /\ int_circle_values' = r.int_circle_values
    /\ pc' = "extracted"
    /\ UNCHANGED <<file_content, data, wvars, mvars, svars, fvars>>

NextPipeline == ParseData \/ ExtractTargetValues

SpecPipeline == InitPipeline /\ [][NextPipeline]_vars

----------------------------------------------------------------------------
(* One call of update_excel_file *)

InitWriter ==
    /\ pc = "call"
    /\ excel_file \in Templates \cup {BadFile}
    /\ call \in Calls
    /\ result = NoResult
    /\ file_content = <<>>
    /\ data = <<>>
    /\ distance_values = <<>>
    /\ int_circle_values = <<>>
    /\ raised = FALSE
    /\ version = "main494"
    /\ ui = NoUi
    /\ session_state = NoSession
    /\ form = NoForm
    /\ download = NoDownload
    /\ query = NoQuery
    /\ answer = NoAnswer

UpdateExcelFile ==
    /\ pc = "call"
    /\ result' = update_excel_file(excel_file, call.distance_values, call.int_circle_values,
                                   call.distance_cells, call.int_circle_cells, call.sheet_name,
                                   call.lot.lot_number, call.lot.inspection_date, call.lot.lot_prefix)
    /\ pc' = "returned"
    /\ UNCHANGED <<pvars_but_pc, excel_file, call, mvars, svars, fvars>>

NextWriter == UpdateExcelFile

SpecWriter == InitWriter /\ [][NextWriter]_vars

----------------------------------------------------------------------------
(* The lot form and the update button of main.  The file defines main twice  *)
(* (line 216 and line 494); version says which definition runs.             *)

F_LOT == <<"L", "O", "T", "7", "(", "7", "-", "9", ")">>
F_NOPREFIX == <<"7", "L", "O", "T">>
F_DATE == <<"2", "0", "2", "5", "/", "1", "0", "/", "0", "7">>
F_DATE2 == <<"2", "0", "2", "5", "/", "1", "3", "/", "9", "9">>
F_BADDATE == <<"2", "0", "2", "5", "-", "1", "0", "-", "0", "7">>

LotInputs == {<<>>, F_LOT, F_NOPREFIX}
DateInputs == {<<>>, F_DATE, F_DATE2, F_BADDATE}

MainTexts == {JoinLines(<<L_d3, L_c5>>), JoinLines(<<L_d1>>)}

\* [f"A{i+1}" for i in range(n)], shifted by offset rows
DefaultCells(n, offset) == [i \in 1..n |-> <<"A", RowDigits[i + offset]>>]

\* the cell references of step 3 for these value lists
UiChoices(dvalues, cvalues, sheets) ==
    { [location_option |-> "default",
       distance_cells |-> DefaultCells(Len(dvalues), 0),
       int_circle_cells |-> DefaultCells(Len(cvalues), Len(dvalues)),
       selected_sheet |-> sh] : sh \in sheets }
    \cup
    { [location_option |-> "custom", distance_cells |-> dc, int_circle_cells |-> cc,
       selected_sheet |-> sh] :
         dc \in [1..Len(dvalues) -> DistRefs], cc \in [1..Len(cvalues) -> CircRefs], sh \in sheets }

\* excel_file.name
ExcelFileName == <<"t", ".", "x", "l", "s", "x">>

\* f"水平ノズル{lot_num}全箇所測定{insp_date}.xlsx" (line 387); a character
\* outside ASCII is written as its code point
DynamicFileName(lot_num, insp_date) ==
    <<"u6C34", "u5E73", "u30CE", "u30BA", "u30EB">> \o lot_num
    \o <<"u5168", "u7B87", "u6240", "u6E2C", "u5B9A">> \o insp_date
    \o <<".", "x", "l", "s", "x">>

\* f"updated_{excel_file.name}" (line 711)
UpdatedFileName(name) == <<"u", "p", "d", "a", "t", "e", "d", "_">> \o name

InitMain ==
    /\ pc = "main"
    /\ version \in {"main216", "main494"}
    /\ file_content \in MainTexts
    /\ data = parse_data(file_content)
    /\ raised = FALSE
    /\ distance_values = extract_target_values(data).distance_values
    /\ int_circle_values = extract_target_values(data).int_circle_values
    /\ excel_file \in Templates
    /\ ui \in UiChoices(distance_values, int_circle_values, SheetNames(excel_file))
    /\ session_state = NoSession
    /\ call = NoCall
    /\ result = NoResult
    /\ form = NoForm
    /\ download = NoDownload
    /\ query = NoQuery
    /\ answer = NoAnswer

\* SubmitLotForm storing the values when either field is filled in
SubmitLotFormEither ==
    \E lot_number \in LotInputs, inspection_date \in DateInputs :
        /\ form' = [lot_number |-> lot_number, inspection_date |-> inspection_date]
        /\ session_state' =
              IF lot_number # <<>> \/ inspection_date # <<>>
              THEN IF version = "main216" /\ ~validate_date_format(inspection_date)
                   THEN session_state
                   ELSE [lot_number |-> lot_number, inspection_date |-> inspection_date,
                         lot_prefix |-> extract_lot_prefix(lot_number)]
              ELSE session_state
        /\ pc' = "submitted"
        /\ download' = NoDownload
        /\ UNCHANGED <<pvars_but_pc, wvars, version, ui, fvars>>

\* the rerun after the form's submit button (lines 334-352 and 666-677)
SubmitLotForm ==
    \E lot_number \in LotInputs, inspection_date \in DateInputs :
        /\ form' = [lot_number |-> lot_number, inspection_date |-> inspection_date]
        /\ session_state' =
              IF lot_number # <<>> /\ inspection_date # <<>>
              THEN IF version = "main216" /\ ~validate_date_format(inspection_date)
                   THEN session_state
                   ELSE [lot_number |-> lot_number, inspection_date |-> inspection_date,
                         lot_prefix |-> extract_lot_prefix(lot_number)]
              ELSE session_state
        /\ pc' = "submitted"
        /\ download' = NoDownload
        /\ UNCHANGED <<pvars_but_pc, wvars, version, ui, fvars>>

has_cells(cells) == \E i \in 1..Len(cells) : Strip(cells[i]) # <<>>

\* the rerun after the update button (lines 361-397 and 686-736)
ClickUpdate ==
    /\ IF ~Truthy(session_state.lot_number) \/ ~Truthy(session_state.inspection_date)
       THEN /\ pc' = "refused"
            /\ download' = NoDownload
            /\ UNCHANGED <<call, result>>
       ELSE IF \/ ui.location_option = "default"
               \/ has_cells(ui.distance_cells) \/ has_cells(ui.int_circle_cells)
       THEN LET sheet_name == IF version = "main216" THEN "sheet" ELSE ui.selected_sheet
                updated_excel == update_excel_file(excel_file, distance_values, int_circle_values,
                                                   ui.distance_cells, ui.int_circle_cells, sheet_name,
                                                   session_state.lot_number,
                                                   session_state.inspection_date,
                                                   session_state.lot_prefix)
            IN  /\ call' = [distance_values |-> distance_values,
                            int_circle_values |-> int_circle_values,
                            distance_cells |-> ui.distance_cells,
                            int_circle_cells |-> ui.int_circle_cells,
                            sheet_name |-> sheet_name,
                            lot |-> session_state]
                /\ result' = updated_excel
                /\ pc' = "wrote"
                /\ download' =
                      IF ~updated_excel.ok THEN NoDownload
                      ELSE IF version = "main216"
                      THEN [offered |-> TRUE,
                            file_name |-> DynamicFileName(session_state.lot_number,
                                                          session_state.inspection_date)]
                      ELSE [offered |-> TRUE, file_name |-> UpdatedFileName(ExcelFileName)]
       ELSE /\ pc' = "warned"
            /\ download' = NoDownload
            /\ UNCHANGED <<call, result>>
    /\ UNCHANGED <<pvars_but_pc, excel_file, mvars, form, fvars>>

NextMain == SubmitLotForm \/ ClickUpdate

SpecMain == InitMain /\ [][NextMain]_vars

----------------------------------------------------------------------------
(* Calls of extract_lot_prefix and validate_date_format on their own *)

MaxLotLen == 4

LotChars == {"L", "o", "7", "3", "("}

X_LOT234 == <<"L", "O", "T", "2", "3", "4", "(", "2", "3", "4", "-", "2", "4", "5", ")">>
X_234LOT == <<"2", "3", "4", "L", "O", "T">>

LotStrings == SeqsUpTo(LotChars, MaxLotLen) \cup {X_LOT234, X_234LOT, None}

\* F_DATE with the character at position i replaced by c
Replaced(i, c) == [k \in 1..Len(F_DATE) |-> IF k = i THEN c ELSE F_DATE[k]]

DateStrings ==
    {<<>>, None, F_DATE, F_DATE2, F_BADDATE}
    \cup {Replaced(i, c) : i \in 1..Len(F_DATE), c \in {"/", "5", "-", "x"}}
    \cup {Take(F_DATE, n) : n \in 1..Len(F_DATE)}
    \cup {F_DATE \o <<c>> : c \in {"\n", "x", " ", "5"}}
    \cup {<<c>> \o F_DATE : c \in {"\n", "x", " ", "5"}}
    \cup {F_DATE \o <<"\n", "\n">>, F_DATE \o <<"\n", "x">>}

InitPure ==
    /\ pc = "ask"
    /\ query \in [fn : {"extract_lot_prefix"}, arg : LotStrings]
                  \cup [fn : {"validate_date_format"}, arg : DateStrings]
    /\ answer = NoAnswer
    /\ file_content = <<>>
    /\ data = <<>>
    /\ distance_values = <<>>
    /\ int_circle_values = <<>>
    /\ raised = FALSE
    /\ excel_file = BadFile
    /\ call = NoCall
    /\ result = NoResult
    /\ version = "main494"
    /\ ui = NoUi
    /\ session_state = NoSession
    /\ form = NoForm
    /\ download = NoDownload

CallExtractLotPrefix ==
    /\ pc = "ask"
    /\ query.fn = "extract_lot_prefix"
    /\ answer' = [s |-> extract_lot_prefix(query.arg), b |-> FALSE]
    /\ pc' = "answered"
    /\ UNCHANGED <<pvars_but_pc, wvars, mvars, svars, query>>

CallValidateDateFormat ==
    /\ pc = "ask"
    /\ query.fn = "validate_date_format"
    /\ answer' = [s |-> <<>>, b |-> validate_date_format(query.arg)]
    /\ pc' = "answered"
    /\ UNCHANGED <<pvars_but_pc, wvars, mvars, svars, query>>

NextPure == CallExtractLotPrefix \/ CallValidateDateFormat

SpecPure == InitPure /\ [][NextPure]_vars

----------------------------------------------------------------------------
(* Properties of the session, under SpecMain *)

\* C3: the write step is never performed while the inspection date to be
\* written fails validate_date_format or the lot number to be written has no
\* extractable prefix. Violated: both definitions of main store a confirmed
\* lot number without a prefix, and the one at line 494 stores any date.
C3_NoWriteOfInvalidLotInfo ==
    call # NoCall =>
        /\ validate_date_format(call.lot.inspection_date)
        /\ extract_lot_prefix(call.lot.lot_number) # None

----------------------------------------------------------------------------
(* Properties of the parser and the extractor, under SpecPipeline *)

HasX(item) == item.Type = T_DISTANCE /\ "X" \in DOMAIN item.fields

\* the position of the first DISTANCE record with an X field and this id
FirstWithId(items, id) ==
    CHOOSE i \in 1..Len(items) :
        /\ HasX(items[i]) /\ items[i].ID = id
        /\ \A j \in 1..(i - 1) : ~(HasX(items[j]) /\ items[j].ID = id)

\* the priority ids 3, 2, 1, 4 walked in that order, absent ids left out
ExpectedDistances(items) ==
    LET present == SelectSeq(distance_order,
                             LAMBDA id : \E i \in 1..Len(items) : HasX(items[i]) /\ items[i].ID = id)
    IN  [j \in 1..Len(present) |->
            Round2(Abs(items[FirstWithId(items, present[j])].fields["X"].v))]

\* C1: for every record list extract_target_values returns, as
\* distance_values, the rounded absolute X of the first DISTANCE record of
\* each of the ids 3, 2, 1, 4 in that order, absent ids contributing nothing.
\* Violated: a record list with a DISTANCE X or an INT-CIRCLE Radius stored
\* as a string makes the call raise, and nothing is returned (see C2).
C1_DistancesByPriority ==
    pc = "extracted" => (~raised /\ distance_values = ExpectedDistances(data))

\* What the code does guarantee for C1: whenever the call returns, the
\* distances are the ones the claim describes.
C1_DistancesWhenReturned ==
    (pc = "extracted" /\ ~raised) => distance_values = ExpectedDistances(data)

\* The documentation's example: ids 1:-1.235, 2:2.004, 3:0.5, 4:9.999 give
\* [0.5, 2.0, 1.24, 10.0].
C1_Example ==
    (pc = "extracted" /\ file_content = JoinLines(ExampleLines))
        => (~raised /\ distance_values = <<50, 200, 124, 1000>>)

\* C2: parse_data followed by extract_target_values never raises, whatever
\* the text. Violated: "2;DISTANCE;;abc" stores X as the string "abc" and
\* abs("abc") raises TypeError in extract_target_values.
C2_NeverRaises == raised = FALSE

\* the INT-CIRCLE records that have a Radius, in input order
ExpectedRadii(items) ==
    LET sel == SelectSeq(items, LAMBDA it : it.Type = T_INT_CIRCLE /\ "Radius" \in DOMAIN it.fields)
    IN  [j \in 1..Len(sel) |-> Round2(sel[j].fields["Radius"].v)]

\* C9: for every record list extract_target_values returns, as
\* int_circle_values, one round(Radius, 2) per INT-CIRCLE record with a
\* Radius field, in input order, duplicates kept. Violated: a Radius (or a
\* DISTANCE X) stored as a string makes the call raise (see C2).
C9_RadiiInInputOrder ==
    pc = "extracted" => (~raised /\ int_circle_values = ExpectedRadii(data))

\* What the code does guarantee for C9: whenever the call returns, the radii
\* are the ones the claim describes.
C9_RadiiWhenReturned ==
    (pc = "extracted" /\ ~raised) => int_circle_values = ExpectedRadii(data)

\* the input lines that are non-empty after trimming and have at least two
\* semicolon-separated parts
KeptLines(text) ==
    SelectSeq(SplitLines(text),
              LAMBDA l : Strip(l) # <<>> /\ Len(Split(Strip(l), ";")) >= 2)

\* C10: parse_data returns exactly one record per input line that is
\* non-empty after trimming and has at least 2 semicolon-separated parts, in
\* input line order, with id = first part and type = second part; records
\* with equal ids are all kept.
C10_OneRecordPerKeptLine ==
    pc # "start" =>
        LET kept == KeptLines(file_content)
        IN  /\ Len(data) = Len(kept)
            /\ \A i \in 1..Len(kept) :
                  /\ data[i].ID = Split(Strip(kept[i]), ";")[1]
                  /\ data[i].Type = Split(Strip(kept[i]), ";")[2]

\* a text with a discarded line and two kept lines of equal id has been parsed
C10_Witness ==
    /\ pc = "parsed"
    /\ Len(data) < Len(SplitLines(file_content))
    /\ \E i, j \in 1..Len(data) : i < j /\ data[i].ID = data[j].ID

----------------------------------------------------------------------------
(* Properties of the spreadsheet writer, under SpecWriter *)

Returned == pc = "returned" /\ excel_file.valid

\* the cell a reference to co must be written to: the top-left cell (minimum
\* row, minimum column) of the merged region holding co, else co itself
ExpectedTarget(wb, title, co) ==
    IF \E mr \in wb.merged[title] : InRange(co, mr)
    THEN LET mr == CHOOSE m \in wb.merged[title] : InRange(co, m)
         IN  [c |-> mr.min_col, r |-> mr.min_row]
    ELSE co

\* the (reference, value) pairs of one pairing that must be attempted: the
\* first min(len(values), len(cells)) positions, blank references left out
PairAttempts(values, cells) ==
    LET n == IF Len(values) < Len(cells) THEN Len(values) ELSE Len(cells)
        idx == SelectSeq([i \in 1..n |-> i], LAMBDA i : Strip(cells[i]) # <<>>)
    IN  [j \in 1..Len(idx) |-> [cell_ref |-> Strip(cells[idx[j]]), value |-> NumV(values[idx[j]])]]

LotAttempts(lot) ==
    (IF Truthy(lot.lot_number) THEN <<[cell_ref |-> S_B1, value |-> StrV(lot.lot_number)]>> ELSE <<>>)
    \o (IF Truthy(lot.inspection_date) THEN <<[cell_ref |-> S_B2, value |-> StrV(lot.inspection_date)]>> ELSE <<>>)
    \o (IF Truthy(lot.lot_prefix) THEN <<[cell_ref |-> S_B3, value |-> StrV(lot.lot_prefix)]>> ELSE <<>>)

AllAttempts(cl) ==
    LotAttempts(cl.lot) \o PairAttempts(cl.distance_values, cl.distance_cells)
                       \o PairAttempts(cl.int_circle_values, cl.int_circle_cells)

LogProj(log) == [k \in 1..Len(log) |-> [cell_ref |-> log[k].cell_ref, value |-> log[k].value]]

\* the cells whose value differs between two workbooks of the same sheets
Changed(before, after) ==
    {x \in SheetNames(before) \X Coords : after.cells[x[1]][x[2]] # before.cells[x[1]][x[2]]}

\* C4: in each of the two pairings exactly the first min(len(values),
\* len(cells)) positions are considered, the i-th value going to the i-th
\* reference; a length mismatch raises no error, nothing is written for the
\* surplus entries, and pairs with a blank reference are skipped.
C4_PairsTruncatedAndBlanksSkipped ==
    Returned =>
        /\ result.ok
        /\ LogProj(SelectSeq(result.log, LAMBDA m : m.value.t = "num"))
             = PairAttempts(call.distance_values, call.distance_cells)
               \o PairAttempts(call.int_circle_values, call.int_circle_cells)
        /\ \A x \in Changed(excel_file, result.output) :
             result.output.cells[x[1]][x[2]].t = "num" =>
                \E i \in 1..Len(AllAttempts(call)) :
                    AllAttempts(call)[i].value = result.output.cells[x[1]][x[2]]

\* a call with more distance cells than values, more int-circle values than
\* cells, a blank reference among the pairs and a pair written
C4_Witness ==
    /\ Returned
    /\ Len(call.distance_cells) > Len(call.distance_values)
    /\ Len(call.int_circle_values) > Len(call.int_circle_cells)
    /\ Len(call.distance_values) >= 1 /\ Strip(call.distance_cells[1]) = <<>>
    /\ \E k \in 1..Len(result.log) : result.log[k].value.t = "num" /\ result.log[k].level = "success"

\* the last successful attempt on each cell decides the cell's final value
LastWritesHold(wb, title, log) ==
    \A k \in 1..Len(log) :
        ResolveRef(log[k].cell_ref).ok =>
            LET at == ExpectedTarget(excel_file, title, ResolveRef(log[k].cell_ref).co)
            IN  \/ \E j \in (k + 1)..Len(log) :
                      /\ ResolveRef(log[j].cell_ref).ok
                      /\ ExpectedTarget(excel_file, title, ResolveRef(log[j].cell_ref).co) = at
                \/ wb.cells[title][at] = log[k].value

\* C5: a failure while writing one cell does not abort the run: every later
\* lot-info, distance and int-circle pair is still attempted, every pair with
\* a valid reference is written, and the workbook is serialized and returned.
C5_CellFailureDoesNotAbort ==
    Returned =>
        /\ result.ok
        /\ LogProj(result.log) = AllAttempts(call)
        /\ \A k \in 1..Len(result.log) :
              (result.log[k].level = "error") <=> ~ResolveRef(result.log[k].cell_ref).ok
        /\ LastWritesHold(Reopen(result.output), result.title, result.log)

\* a write failed on an invalid reference and a later pair was written
C5_Witness ==
    /\ Returned
    /\ \E k, j \in 1..Len(result.log) :
          /\ k < j
          /\ result.log[k].level = "error"
          /\ result.log[j].level # "error"
          /\ Reopen(result.output).cells[result.title][result.log[j].at] = result.log[j].value

InMergedRegion(wb, title, cell_ref) ==
    /\ ResolveRef(cell_ref).ok
    /\ \E mr \in wb.merged[title] : InRange(ResolveRef(cell_ref).co, mr)

\* C6: for a reference inside a merged region write_to_cell stores the value
\* in the region's top-left cell, changes no other cell, reports success,
\* and the top-left cell holds the value after serialization and reopening.
C6_MergedWriteGoesToAnchor ==
    Returned =>
        /\ \A k \in 1..Len(result.log) :
              InMergedRegion(excel_file, result.title, result.log[k].cell_ref) =>
                 /\ result.log[k].level # "error"
                 /\ result.log[k].at
                      = ExpectedTarget(excel_file, result.title, ResolveRef(result.log[k].cell_ref).co)
        /\ (Len(result.log) = 1 /\ InMergedRegion(excel_file, result.title, result.log[1].cell_ref)) =>
              LET at == ExpectedTarget(excel_file, result.title, ResolveRef(result.log[1].cell_ref).co)
              IN  /\ result.successful_writes = 1
                  /\ result.output.cells[result.title][at] = result.log[1].value
                  /\ Reopen(result.output).cells[result.title][at] = result.log[1].value
                  /\ Changed(excel_file, result.output) \subseteq {<<result.title, at>>}
                  /\ Changed(excel_file, Reopen(result.output)) \subseteq {<<result.title, at>>}

\* the call made a single write, through a reference to a cell of a merged
\* region that is not its top-left cell
C6_Witness ==
    /\ Returned
    /\ Len(result.log) = 1
    /\ InMergedRegion(excel_file, result.title, result.log[1].cell_ref)
    /\ ResolveRef(result.log[1].cell_ref).co
         # ExpectedTarget(excel_file, result.title, ResolveRef(result.log[1].cell_ref).co)
    /\ Changed(excel_file, Reopen(result.output)) # {}

\* the cells update_excel_file may change: B1/B2/B3 when the lot value is
\* provided, the paired non-blank references, and the top-left cell of a
\* merged region holding one of these references
ExemptCells(wb, title, cl) ==
    LET refs == {AllAttempts(cl)[i].cell_ref : i \in 1..Len(AllAttempts(cl))}
        cos == {ResolveRef(ref).co : ref \in {x \in refs : ResolveRef(x).ok}}
    IN  cos \cup {ExpectedTarget(wb, title, co) : co \in cos}

\* C7: after update_excel_file every cell that is neither B1/B2/B3 (when
\* provided), nor a paired non-blank reference, nor the top-left cell of a
\* merged region holding such a reference, holds the template's value, and
\* the sheets other than the target sheet are unchanged.
C7_OtherCellsUnchanged ==
    Returned =>
        \A x \in Changed(excel_file, Reopen(result.output)) :
            /\ x[1] = TargetSheet(excel_file, call.sheet_name)
            /\ x[2] \in ExemptCells(excel_file, x[1], call)

\* a workbook of two sheets has been written to, in a merged region too
C7_Witness ==
    /\ Returned
    /\ Len(excel_file.sheetnames) = 2
    /\ result.successful_writes >= 2
    /\ \E k \in 1..Len(result.log) : result.log[k].level = "warning"
    /\ Changed(excel_file, Reopen(result.output)) # {}

\* the sheet the claim's order chooses
ExpectedSheet(wb, sheet_name) ==
    IF sheet_name # NoSheetName /\ sheet_name # "" /\ sheet_name \in SheetNames(wb)
    THEN sheet_name
    ELSE IF "sheet" \in SheetNames(wb) THEN "sheet"
    ELSE wb.sheetnames[wb.active]

----------------------------------------------------------------------------
(* Properties of the parsed fields, under SpecPipeline *)

\* the schema table of the documentation (blank = skipped)
Schema(type) ==
    CASE type = T_PLANE      -> <<"Method", "X", "Y", "Z", "A", "B", "C", "", "D", "Dev">>
      [] type = T_CIRCLE     -> <<"Method", "X", "Y", "Z", "I", "J", "K", "", "Radius", "Dev">>
      [] type = T_PT_COMP    -> <<"Method", "X", "Y", "Z">>
      [] type = T_DISTANCE   -> <<"", "X", "Y", "Z", "", "", "", "", "Distance">>
      [] type = T_CONE       -> <<"Method", "X", "Y", "Z", "I", "J", "K", "", "Half-Angle", "Dev">>
      [] type = T_INT_CIRCLE -> <<"", "X", "Y", "Z", "I", "J", "K", "", "Radius">>
      [] type = T_SYM_POINT  -> <<"", "X", "Y", "Z">>

\* the positional values of a kept line: the parts after the second, trimmed
SuppliedValues(line) ==
    LET parts == Split(Strip(line), ";")
    IN  [i \in 1..(Len(parts) - 2) |-> Strip(parts[i + 2])]

\* C11: for a parsed line of a known type the fields are exactly schema[i]
\* mapped to the i-th value, for each position i below both the number of
\* values and the schema length with a non-blank schema name and a non-empty
\* value, stored as a float when the value matches the numeric pattern and
\* as the original string otherwise; so a CIRCLE line's Radius is its 9th
\* value as a float when numeric.
C11_FieldsFollowSchema ==
    pc # "start" =>
        LET kept == KeptLines(file_content)
        IN  \A k \in 1..Len(data) :
                data[k].Type \in KnownTypes =>
                    LET vals == SuppliedValues(kept[k])
                        sch == Schema(data[k].Type)
                        pos == {i \in 1..Len(vals) : i <= Len(sch) /\ sch[i] # "" /\ vals[i] # <<>>}
                    IN  /\ DOMAIN data[k].fields = {sch[i] : i \in pos}
                        /\ \A i \in pos :
                              data[k].fields[sch[i]] =
                                 IF NumericPattern(vals[i])
                                 THEN [num |-> TRUE, v |-> Float(vals[i]), s |-> <<>>]
                                 ELSE [num |-> FALSE, v |-> 0, s |-> vals[i]]
                        /\ (data[k].Type = T_CIRCLE /\ Len(vals) >= 9 /\ NumericPattern(vals[9])) =>
                              data[k].fields["Radius"] = [num |-> TRUE, v |-> Float(vals[9]), s |-> <<>>]

\* a CIRCLE line with a value in the blank 8th slot, a numeric 9th value and
\* a value beyond the schema has been parsed: Radius is 4.5, no key is blank
C11_Witness ==
    /\ pc = "parsed"
    /\ \E k \in 1..Len(data) :
          /\ data[k].Type = T_CIRCLE
          /\ Len(SuppliedValues(KeptLines(file_content)[k])) = 11
          /\ SuppliedValues(KeptLines(file_content)[k])[8] # <<>>
          /\ data[k].fields["Radius"] = [num |-> TRUE, v |-> 4500, s |-> <<>>]
          /\ data[k].fields["Method"] = [num |-> FALSE, v |-> 0, s |-> <<"m">>]
          /\ "" \notin DOMAIN data[k].fields

ValNames(n) == {"Val" \o ToString(i) : i \in 1..n}

\* C12 as stated: for a parsed line of an unknown type with N positional
\* values (empty values included) the field names are exactly Val1..ValN.
\* Violated: "3 ;FOO;a;;12" has 3 values and the fields Val1 and Val3 only.
C12_AllValNames ==
    pc # "start" =>
        \A k \in 1..Len(data) :
            data[k].Type \notin KnownTypes =>
                DOMAIN data[k].fields = ValNames(Len(SuppliedValues(KeptLines(file_content)[k])))

\* C12 as amended: for a parsed line of an unknown type with N positional
\* values the field names are exactly the Val<i> of the positions i in 1..N
\* whose trimmed value is non-empty.
C12_ValNamesOfNonEmptyValues ==
    pc # "start" =>
        \A k \in 1..Len(data) :
            data[k].Type \notin KnownTypes =>
                LET vals == SuppliedValues(KeptLines(file_content)[k])
                IN  DOMAIN data[k].fields
                      = {"Val" \o ToString(i) : i \in {j \in 1..Len(vals) : vals[j] # <<>>}}

\* a line of an unknown type with an empty value among three has been parsed
C12_Witness ==
    /\ pc = "parsed"
    /\ \E k \in 1..Len(data) :
          /\ data[k].Type \notin KnownTypes
          /\ Len(SuppliedValues(KeptLines(file_content)[k])) = 3
          /\ DOMAIN data[k].fields = {"Val1", "Val3"}

----------------------------------------------------------------------------
(* Properties of the lot cells and of the order of writes, under SpecWriter *)

\* the cells the pairs of both pairings are written to
PairTargets(wb, title, cl) ==
    LET pairs == PairAttempts(cl.distance_values, cl.distance_cells)
                 \o PairAttempts(cl.int_circle_values, cl.int_circle_cells)
    IN  {ExpectedTarget(wb, title, ResolveRef(pairs[i].cell_ref).co) :
            i \in {j \in 1..Len(pairs) : ResolveRef(pairs[j].cell_ref).ok}}

\* the lot argument arg belongs in the cell named ref; later are the
\* references of the lot arguments written after it
LotCellRight(ref, arg, later) ==
    LET title == result.title
        at == ExpectedTarget(excel_file, title, ResolveRef(ref).co)
        written == \E k \in 1..Len(result.log) : result.log[k].cell_ref = ref /\ result.log[k].value.t = "str"
        overridden ==
            \/ at \in PairTargets(excel_file, title, call)
            \/ \E x \in later :
                  Truthy(x[2]) /\ ExpectedTarget(excel_file, title, ResolveRef(x[1]).co) = at
    IN  /\ written <=> (arg # None /\ arg # <<>>)
        /\ \A k \in 1..Len(result.log) :
              (result.log[k].cell_ref = ref /\ result.log[k].value.t = "str") =>
                 /\ result.log[k].value.s = arg
                 /\ result.log[k].level # "error"
        /\ (written /\ ~overridden) => result.output.cells[title][at] = [t |-> "str", n |-> 0, s |-> arg]

\* C13: update_excel_file writes lot_number to B1, inspection_date to B2 and
\* lot_prefix to B3 of the target sheet, each if and only if that argument
\* is provided (non-empty); an absent argument is not written, and the three
\* targets do not depend on the distance / int-circle cell lists.
C13_LotCells ==
    Returned =>
        /\ LotCellRight(<<"B", "1">>, call.lot.lot_number,
                        {<<(<<"B", "2">>), call.lot.inspection_date>>, <<(<<"B", "3">>), call.lot.lot_prefix>>})
        /\ LotCellRight(<<"B", "2">>, call.lot.inspection_date, {<<(<<"B", "3">>), call.lot.lot_prefix>>})
        /\ LotCellRight(<<"B", "3">>, call.lot.lot_prefix, {})
        /\ Len(SelectSeq(result.log, LAMBDA m : m.value.t = "str"))
             = Cardinality({i \in 1..3 :
                   <<call.lot.lot_number, call.lot.inspection_date, call.lot.lot_prefix>>[i] \notin {None, <<>>}})
        /\ (\A i \in 1..3 : <<call.lot.lot_number, call.lot.inspection_date, call.lot.lot_prefix>>[i]
                                 \in {None, <<>>})
              => Changed(excel_file, result.output) \subseteq
                    ({result.title} \X PairTargets(excel_file, result.title, call))

\* lot number and prefix are provided and in B1 and B3, the inspection date
\* is empty and B2 holds the template's value, while cell lists are in use
C13_Witness ==
    /\ Returned
    /\ call.lot.inspection_date = <<>>
    /\ call.distance_cells # <<>>
    /\ result.output.cells[result.title][[c |-> 2, r |-> 1]] = [t |-> "str", n |-> 0, s |-> call.lot.lot_number]
    /\ result.output.cells[result.title][[c |-> 2, r |-> 3]] = [t |-> "str", n |-> 0, s |-> call.lot.lot_prefix]
    /\ result.output.cells[result.title][[c |-> 2, r |-> 2]] = excel_file.cells[result.title][[c |-> 2, r |-> 2]]
    /\ \E k \in 1..Len(result.log) : result.log[k].value.t = "num" /\ result.log[k].level = "success"

\* the position in AllAttempts of the last attempt that resolves to cell at
LastAttemptOn(wb, title, cl, at) ==
    LET att == AllAttempts(cl)
        on == {i \in 1..Len(att) :
                 /\ ResolveRef(att[i].cell_ref).ok
                 /\ ExpectedTarget(wb, title, ResolveRef(att[i].cell_ref).co) = at}
    IN  IF on = {} THEN 0 ELSE CHOOSE i \in on : \A j \in on : j <= i

\* C18: the writes are made in the order B1, B2, B3, the distance pairs in
\* list order, the int-circle pairs in list order, and a cell that several
\* writes resolve to ends with the value of the last of them in this order.
C18_LastWriteWins ==
    Returned =>
        /\ LogProj(result.log)
             = LotAttempts(call.lot)
               \o PairAttempts(call.distance_values, call.distance_cells)
               \o PairAttempts(call.int_circle_values, call.int_circle_cells)
        /\ \A at \in Coords :
              LET last == LastAttemptOn(excel_file, result.title, call, at)
              IN  IF last = 0
                  THEN result.output.cells[result.title][at] = excel_file.cells[result.title][at]
                  ELSE result.output.cells[result.title][at] = AllAttempts(call)[last].value

\* a lot value, a distance value and an int-circle value were all written to
\* the top-left cell of one merged region, through B1, B1 again and A1, and
\* the cell holds the int-circle value
C18_Witness ==
    /\ Returned
    /\ Len(call.distance_values) >= 1 /\ Len(call.int_circle_values) >= 1
    /\ \E i, j, k \in 1..Len(result.log) :
          /\ i < j /\ j < k
          /\ result.log[i].value.t = "str"
          /\ result.log[j].value = [t |-> "num", n |-> call.distance_values[1], s |-> <<>>]
          /\ result.log[k].value = [t |-> "num", n |-> call.int_circle_values[1], s |-> <<>>]
          /\ result.log[i].level = "warning" /\ result.log[j].level = "warning"
          /\ result.log[k].level = "success"
          /\ result.log[i].at = result.log[k].at /\ result.log[j].at = result.log[k].at
          /\ result.output.cells[result.title][result.log[k].at] = result.log[k].value

----------------------------------------------------------------------------
(* Properties of validate_date_format and extract_lot_prefix, under SpecPure *)

\* exactly four digits, "/", two digits, "/", two digits
ExactDate(str) ==
    /\ str # None
    /\ Len(str) = 10
    /\ \A i \in {1, 2, 3, 4, 6, 7, 9, 10} : str[i] \in Digit
    /\ str[5] = "/" /\ str[8] = "/"

\* C14: validate_date_format(s) is true if and only if s is exactly four
\* digits, "/", two digits, "/", two digits, with no character before or
\* after. Violated: "$" also matches just before a final line break, so
\* "2025/10/07\n" is accepted.
C14_ExactDateOnly ==
    (pc = "answered" /\ query.fn = "validate_date_format") => (answer.b <=> ExactDate(query.arg))

\* What the code does guarantee for C14: the exact dates are accepted, also
\* when followed by one line break, and nothing else is.
C14_ExactDateOrLineBreak ==
    (pc = "answered" /\ query.fn = "validate_date_format") =>
        (answer.b <=> \/ ExactDate(query.arg)
                      \/ /\ query.arg # None /\ Len(query.arg) = 11 /\ query.arg[11] = "\n"
                         /\ ExactDate(SubSeq(query.arg, 1, 10)))

\* the lengths k for which the first k characters of str are one or more
\* letters followed by one or more digits
LetterDigitRuns(str) ==
    {k \in 2..Len(str) :
        \E n \in 1..(k - 1) :
            /\ \A i \in 1..n : str[i] \in Letter
            /\ \A i \in (n + 1)..k : str[i] \in Digit}

\* C15: extract_lot_prefix(s) returns the longest prefix of s made of one or
\* more letters followed by one or more digits, and nothing exactly when s
\* is empty or does not start with such a run; a returned prefix is a
\* non-empty prefix of s ("LOT234(234-245)" gives "LOT234", "234LOT" nothing).
C15_LongestLetterDigitPrefix ==
    (pc = "answered" /\ query.fn = "extract_lot_prefix") =>
        LET str == query.arg
            runs == IF str = None THEN {} ELSE LetterDigitRuns(str)
        IN  /\ (answer.s = None) <=> (runs = {})
            /\ runs # {} =>
                  /\ Len(answer.s) \in runs
                  /\ \A k \in runs : k <= Len(answer.s)
                  /\ Len(answer.s) >= 2
                  /\ answer.s = SubSeq(str, 1, Len(answer.s))
            /\ str = X_LOT234 => answer.s = <<"L", "O", "T", "2", "3", "4">>
            /\ str = X_234LOT => answer.s = None

\* a string of a letter, two digits and another character gave the letter
\* and both digits
C15_Witness ==
    /\ pc = "answered" /\ query.fn = "extract_lot_prefix"
    /\ Len(query.arg) = 4
    /\ query.arg[1] \in Letter /\ query.arg[2] \in Digit /\ query.arg[3] \in Digit
    /\ query.arg[4] \notin Digit
    /\ answer.s = SubSeq(query.arg, 1, 3)

----------------------------------------------------------------------------
(* Properties of the download and of the session values, under SpecMain *)

\* C16: whenever a write succeeds with a lot number and inspection date
\* supplied, the artifact offered for download is named "水平ノズル" +
\* lot_number + "全箇所測定" + inspection_date + ".xlsx", with the lot number
\* and date written to B1 and B2. Violated: the main defined at line 494
\* offers "updated_" + the template's file name.
C16_DownloadFileName ==
    (pc = "wrote" /\ result.ok) =>
        /\ download.offered
        /\ download.file_name =
              <<"u6C34", "u5E73", "u30CE", "u30BA", "u30EB">> \o call.lot.lot_number
              \o <<"u5168", "u7B87", "u6240", "u6E2C", "u5B9A">> \o call.lot.inspection_date
              \o <<".", "x", "l", "s", "x">>

\* What the code does guarantee for C16: the main defined at line 216 names
\* the download as the claim says.
C16_DownloadFileNameMain216 ==
    (pc = "wrote" /\ result.ok /\ version = "main216") =>
        /\ download.offered
        /\ download.file_name =
              <<"u6C34", "u5E73", "u30CE", "u30BA", "u30EB">> \o call.lot.lot_number
              \o <<"u5168", "u7B87", "u6240", "u6E2C", "u5B9A">> \o call.lot.inspection_date
              \o <<".", "x", "l", "s", "x">>

Filled(x) == x # None /\ x # <<>>

\* C17: the write step runs only after a confirmation that supplied both a
\* non-empty lot number and a non-empty inspection date; an update press
\* before any such confirmation performs no write; a confirmation with
\* either field empty leaves the stored lot number, date and prefix
\* unchanged; and the values passed to the write are those of the most
\* recent accepted confirmation, all from the same submission.
C17_WriteUsesAcceptedConfirmation ==
    /\ [](session_state = NoSession => (call = NoCall /\ pc # "wrote"))
    /\ [](session_state # NoSession =>
            /\ Filled(session_state.lot_number) /\ Filled(session_state.inspection_date)
            /\ session_state.lot_prefix = extract_lot_prefix(session_state.lot_number))
    /\ [](pc = "wrote" => call.lot = session_state)
    /\ [][(pc' = "submitted" /\ (form'.lot_number = <<>> \/ form'.inspection_date = <<>>))
             => session_state' = session_state]_vars
    /\ [][session_state' # session_state =>
             /\ pc' = "submitted"
             /\ session_state'.lot_number = form'.lot_number
             /\ session_state'.inspection_date = form'.inspection_date]_vars
    /\ [][call' # call => (pc' = "wrote" /\ call'.lot = session_state /\ session_state' = session_state)]_vars

\* the write used the values of an accepted confirmation although the form
\* was submitted again afterwards with the inspection date left empty
C17_Witness ==
    /\ pc = "wrote"
    /\ form.lot_number # <<>> /\ form.inspection_date = <<>>
    /\ form.lot_number # call.lot.lot_number
    /\ call.lot.inspection_date # <<>>
    /\ result.ok

====
